---- MODULE Spec2Model ----
(***************************************************************************)
(* AKClientLib core: the two class catalogs (AKUiClassesRegistry,          *)
(* AKComponentRegistry), the node registry (AKObjectRegistry), the         *)
(* attachment engine (AKObjectManager) and the teardown pipeline           *)
(* (observeDestroy), modelled from src/src/core/ak-core.js and             *)
(* src/src/core/ak-utils.js.                                               *)
(*                                                                         *)
(* Strings are sequences of character codes, so that toLowerCase,          *)
(* toUpperCase and split act on characters.  null is the one-element       *)
(* sequence <<0>>, which is no string of the model.                        *)
(***************************************************************************)
EXTENDS Integers, Sequences, FiniteSets, TLC

NULL == <<0>>
NoClass == "null"
NoNode == "null"

(* ------------------------------ bounds -------------------------------- *)
\* instances ever constructed
MaxInst == 3
\* AbortControllers ever allocated
MaxCtrl == 3
\* removal records waiting in the observer's queue
MaxPending == 2

(* ------------------------------ strings ------------------------------- *)
Foo == <<70, 111, 111>>
foo == <<102, 111, 111>>
Bar == <<66, 97, 114>>
fooBar == <<102, 111, 111, 32, 66, 97, 114>>

toLowerCase(s) == [i \in DOMAIN s |-> IF s[i] \in 65..90 THEN s[i] + 32 ELSE s[i]]
toUpperCase(s) == [i \in DOMAIN s |-> IF s[i] \in 97..122 THEN s[i] - 32 ELSE s[i]]

\* ak-utils.js isNonEmptyStr: truthy and of type string
isNonEmptyStr(aString) == aString # NULL /\ aString # <<>>

\* ak-utils.js sameText; a non-string argument fails its assertion, which every
\* caller in ak-core.js turns into the failure of the test it was making
sameText(aFirst, aSecond) ==
  /\ aFirst # NULL
  /\ aSecond # NULL
  /\ toUpperCase(aFirst) = toUpperCase(aSecond)

\* matchText that answers true whatever the list holds
matchText_Always(aString, aValues) == TRUE

matchText(aString, aValues) ==
  \E i \in DOMAIN aValues : sameText(aString, aValues[i])

RECURSIVE split(_)
\* String.prototype.split(' ')
split(s) ==
  IF \A i \in DOMAIN s : s[i] # 32
  THEN <<s>>
  ELSE LET i == CHOOSE k \in DOMAIN s : s[k] = 32 /\ \A j \in 1..(k - 1) : s[j] # 32
       IN <<SubSeq(s, 1, i - 1)>> \o split(SubSeq(s, i + 1, Len(s)))

\* listAttribute without its test of the attribute's value
listAttribute_NoGuard(att) == split(att)

\* ak-utils.js listAttribute, on the attribute's value
listAttribute(att) == IF att = NULL \/ att = <<>> THEN <<>> ELSE split(att)

(* ------------------------------- maps --------------------------------- *)
\* a JavaScript object used as a map: a function on the set of its own keys
EmptyMap == [x \in {} |-> NULL]
Put(m, k, v) == [x \in DOMAIN m \cup {k} |-> IF x = k THEN v ELSE m[x]]
Del(m, k) == [x \in DOMAIN m \ {k} |-> m[x]]

(* --------------------------- the program's universe ------------------- *)
\* class objects: A and B extend AKUiElement (B extends A), K and L extend AKComponent
UiClasses == {"A", "B"}
ComponentClasses == {"K", "L"}
Classes == UiClasses \cup ComponentClasses
\* the superclass of each class; "AKUiElement" and "AKComponent" are the family roots
SuperClass(c) ==
  CASE c = "A" -> "AKUiElement"
    [] c = "B" -> "A"
    [] c = "K" -> "AKComponent"
    [] c = "L" -> "AKComponent"
    [] OTHER -> "AKObject"
\* the event names of the class's _handlers getter
Handlers(c) ==
  CASE c = "A" -> <<"destroy">>
    [] c = "B" -> <<"click">>
    [] OTHER -> <<>>

Elements == {"e1", "e2", "e3"}
\* Element.id
elemId(e) ==
  CASE e = "e1" -> <<78, 49>> [] e = "e2" -> <<110, 50>> [] e = "e3" -> <<110, 51>>
    [] e = "e1b" -> <<110, 49>>
    [] OTHER -> <<>>
\* a second element, of the pages that have it, whose id differs from the id of
\* e1 in letter case only
Twin == "e1b"
\* an element that has no id attribute: its id is the empty string
Anonymous == "e0"
\* a type name that is the empty string, or not a string
EmptyNames == {<<>>, NULL}
\* aElement.id.toLowerCase(): the node identity the registry is keyed by
idOf(aElement) == toLowerCase(elemId(aElement))
\* the type names asked for
Names == {Foo, Bar}

VARIABLES
  uiItems,        \* AKUiClassesRegistry.#ITEMS
  compItems,      \* AKComponentRegistry.#ITEMS
  className,      \* the static className each class object owns, NULL when none
  attrs,          \* each element's ak-component-class and ak-ui-classes attributes
  parentElement,  \* the tree: each element's parent, "root" or none
  observing,      \* startDestroyObserver has been called on the root
  pending,        \* removed nodes of the queued mutation records, in order
  registry,       \* AKObjectRegistry.#ITEMS
  created,        \* how many AKObjects have been constructed; an instance's id is its rank
  controllers,    \* every AbortController allocated so far: TRUE when aborted
  listeners       \* the event listeners added by _applyClass and not removed by an
                  \* abort of their signal: [el, type, signal]

vars == <<uiItems, compItems, className, attrs, parentElement, observing, pending,
          registry, created, controllers, listeners>>
catalogVars == <<uiItems, compItems, className>>
domVars == <<attrs, parentElement, observing, pending>>
heapVars == <<registry, created, controllers, listeners>>

RECURSIVE classNameOf(_)
\* aClass.className read as JavaScript reads a static property: the class's own
\* value when register attached one, else the value its superclass answers;
\* AKObject and the family roots answer null
classNameOf(aClass) ==
  IF aClass \notin Classes THEN NULL
  ELSE IF className[aClass] # NULL THEN className[aClass]
  ELSE classNameOf(SuperClass(aClass))

(* ---------------------------- class catalogs -------------------------- *)
\* find that reads #ITEMS under the name as given
find_CaseSensitive(items, aClassName) ==
  IF ~isNonEmptyStr(aClassName) THEN NoClass
  ELSE IF aClassName \in DOMAIN items THEN items[aClassName]
  ELSE NoClass

\* AKUiClassesRegistry.find and AKComponentRegistry.find (the same code)
find(items, aClassName) ==
  IF ~isNonEmptyStr(aClassName) THEN NoClass
  ELSE IF toLowerCase(aClassName) \in DOMAIN items THEN items[toLowerCase(aClassName)]
  ELSE NoClass

\* register without the "already registered" return: the last registration wins
register_LastWins(items, names, aClassName, aClass) ==
  IF ~isNonEmptyStr(aClassName)
  THEN [items |-> items, names |-> names, error |-> "AssertionFailure"]
  ELSE [items |-> Put(items, toLowerCase(aClassName), aClass),
        names |-> [names EXCEPT ![aClass] = aClassName],
        error |-> "none"]

\* register: the new #ITEMS and the new className of every class
register(items, names, aClassName, aClass) ==
  IF ~isNonEmptyStr(aClassName)
  THEN [items |-> items, names |-> names, error |-> "AssertionFailure"]
  ELSE IF find(items, aClassName) # NoClass
  THEN [items |-> items, names |-> names, error |-> "none"]
  ELSE [items |-> Put(items, toLowerCase(aClassName), aClass),
        names |-> [names EXCEPT ![aClass] = aClassName],
        error |-> "none"]

\* unregister that deletes the key as given
unregister_CaseSensitive(items, aClassName) ==
  IF ~isNonEmptyStr(aClassName) THEN items ELSE Del(items, aClassName)

unregister(items, aClassName) ==
  IF ~isNonEmptyStr(aClassName) THEN items ELSE Del(items, toLowerCase(aClassName))

\* contains(aClassName) for a single name: Object.hasOwn(#ITEMS, aClassName)
contains(items, aClassName) == aClassName \in DOMAIN items
\* contains(aClassName) for an array of names
containsAll(items, aClassNames) ==
  \A i \in DOMAIN aClassNames : aClassNames[i] \in DOMAIN items

\* get: find, then assertFmt(result, ...)
catalogGet(items, aClassName) ==
  LET result == find(items, aClassName)
  IN [class |-> result,
      error |-> IF result = NoClass THEN "AssertionFailure" ELSE "none"]

Families == {"ui", "comp"}
Items(f) == IF f = "ui" THEN uiItems ELSE compItems

Register(f, aClassName, aClass) ==
  LET r == register(Items(f), className, aClassName, aClass)
  IN /\ uiItems' = IF f = "ui" THEN r.items ELSE uiItems
     /\ compItems' = IF f = "comp" THEN r.items ELSE compItems
     /\ className' = r.names
     /\ UNCHANGED <<domVars, heapVars>>

Unregister(f, aClassName) ==
  /\ uiItems' = IF f = "ui" THEN unregister(uiItems, aClassName) ELSE uiItems
  /\ compItems' = IF f = "comp" THEN unregister(compItems, aClassName) ELSE compItems
  /\ UNCHANGED <<className, domVars, heapVars>>

(* ------------------------------ errors -------------------------------- *)
\* a thrown Error: its name and the values formatted into its message
NoError == [name |-> "none", args |-> <<>>]
Thrown(aName, aValues) == [name |-> aName, args |-> aValues]

(* ---------------------------- node registry --------------------------- *)
\* has that never finds the instance
has_NeverFound(reg, aId, aClass) == FALSE

\* AKObjectRegistry.has
has(reg, aId, aClass) ==
  /\ aId \in DOMAIN reg
  /\ classNameOf(aClass) \in DOMAIN reg[aId].instances

\* AKObjectRegistry.getAKObject
getAKObject(reg, aId, aClass) == reg[aId].instances[classNameOf(aClass)]

\* register that starts the entry's instances afresh at every call
registerObject_Replace(reg, aObject, aId, aName) ==
  [registry |-> Put(reg, aId, [instances |-> Put(EmptyMap, aName, aObject),
                               controllers |-> IF aId \in DOMAIN reg
                                               THEN reg[aId].controllers ELSE <<>>]),
   error |-> NoError]

\* AKObjectRegistry.register: the entry is created when missing, and the slot of
\* the object's class name must be free
registerObject(reg, aObject, aId, aName) ==
  LET r1 == IF aId \in DOMAIN reg THEN reg
            ELSE Put(reg, aId, [instances |-> EmptyMap, controllers |-> <<>>])
  IN IF aName \in DOMAIN r1[aId].instances
     THEN [registry |-> r1, error |-> Thrown("AssertionFailure", <<>>)]
     ELSE [registry |-> Put(r1, aId, [r1[aId] EXCEPT !.instances = Put(@, aName, aObject)]),
           error |-> NoError]

\* addListenerController that makes the entry it does not find
addListenerController_CreateEntry(h, aId) ==
  LET c == Len(h.controllers) + 1
      reg == IF aId \in DOMAIN h.registry THEN h.registry
             ELSE Put(h.registry, aId, [instances |-> EmptyMap, controllers |-> <<>>])
  IN [h |-> [h EXCEPT !.controllers = Append(@, FALSE),
                      !.registry = [reg EXCEPT ![aId].controllers = Append(@, c)]],
      signal |-> c,
      error |-> NoError]

\* addListenerController with one controller per entry: the entry's first
\* controller is handed out again when there is one
addListenerController_Reuse(h, aId) ==
  IF aId \notin DOMAIN h.registry
  THEN [h |-> h, signal |-> 0, error |-> Thrown("AssertionFailure", <<>>)]
  ELSE IF h.registry[aId].controllers # <<>>
  THEN [h |-> h, signal |-> Head(h.registry[aId].controllers), error |-> NoError]
  ELSE [h |-> [h EXCEPT !.controllers = Append(@, FALSE),
                        !.registry[aId].controllers = <<Len(h.controllers) + 1>>],
        signal |-> Len(h.controllers) + 1,
        error |-> NoError]

\* AKObjectRegistry.addListenerController: a new AbortController pushed on the
\* entry's list; its signal is the controller's index
addListenerController(h, aId) ==
  IF aId \notin DOMAIN h.registry
  THEN [h |-> h, signal |-> 0, error |-> Thrown("AssertionFailure", <<>>)]
  ELSE LET c == Len(h.controllers) + 1
       IN [h |-> [h EXCEPT !.controllers = Append(@, FALSE),
                           !.registry[aId].controllers = Append(@, c)],
           signal |-> c,
           error |-> NoError]

\* unregister whose loop stops after the first controller of the entry
abortAll_FirstOnly(ctrls, item) ==
  [c \in DOMAIN ctrls |->
     IF item.controllers # <<>> /\ Head(item.controllers) = c THEN TRUE ELSE ctrls[c]]

\* unregister without its loop: no controller is aborted
abortAll_NoAbort(ctrls, item) == ctrls

\* the loop of AKObjectRegistry.unregister: abort() on every controller of the entry
abortAll(ctrls, item) ==
  [c \in DOMAIN ctrls |->
     IF \E i \in DOMAIN item.controllers : item.controllers[i] = c THEN TRUE ELSE ctrls[c]]

\* AKObjectRegistry.unregister; an aborted signal removes its listener
unregisterNode(h, aId) ==
  IF aId \notin DOMAIN h.registry THEN h
  ELSE LET ctrls == abortAll(h.controllers, h.registry[aId])
       IN [h EXCEPT !.controllers = ctrls,
                    !.listeners = {l \in @ : ~ctrls[l.signal]},
                    !.registry = Del(@, aId)]

(* -------------------------- base type hierarchy ----------------------- *)
RECURSIVE isDescendant(_, _)
\* ak-utils.js isDescendant, on the superclass chain
isDescendant(aClass, aParentClass) ==
  IF aClass = aParentClass THEN TRUE
  ELSE IF aClass = "AKObject" THEN FALSE
  ELSE isDescendant(SuperClass(aClass), aParentClass)

\* _validateElement of AKObject, AKUiElement and AKComponent
validateElement(aClass, aElement) ==
  /\ isNonEmptyStr(elemId(aElement))
  /\ isDescendant(aClass, "AKUiElement") =>
       matchText(classNameOf(aClass), listAttribute(attrs[aElement].ui))
  /\ isDescendant(aClass, "AKComponent") =>
       sameText(classNameOf(aClass), attrs[aElement].comp)

\* the AKObject constructor: the class has a name and the element is valid
construct(aClass, aElement) ==
  IF isNonEmptyStr(classNameOf(aClass)) /\ validateElement(aClass, aElement)
  THEN NoError
  ELSE Thrown("AssertionFailure", <<classNameOf(aClass)>>)

RECURSIVE addHandlers(_, _, _)
\* the iterateObject loop of AKUiElement._applyClass: one listener per handler,
\* each with the signal of a controller of its own
addHandlers(h, aElement, aEventNames) ==
  IF aEventNames = <<>> THEN h
  ELSE LET a == addListenerController(h, idOf(aElement))
           h1 == [a.h EXCEPT !.listeners =
                    @ \cup {[el |-> aElement, type |-> Head(aEventNames), signal |-> a.signal]}]
       IN addHandlers(h1, aElement, Tail(aEventNames))

\* init() without its first statement: _applyClass is not called
applyClass_Skipped(h, aId, aName) == h

\* _applyClass of the instance registered under (aId, aName)
applyClass(h, aId, aName) ==
  LET o == h.registry[aId].instances[aName]
      h1 == IF isDescendant(o.class, "AKUiElement")
            THEN addHandlers(h, o.el, Handlers(o.class))
            ELSE h
  IN [h1 EXCEPT !.registry[aId].instances[aName].stage = "applied"]

(* --------------------------- attachment engine ------------------------ *)
\* the two tests of AKObjectManager.get on the element's attributes
compMatch(aElement, aClassName) ==
  sameText(aClassName, IF attrs[aElement].comp = NULL THEN <<>> ELSE attrs[aElement].comp)
uiMatch(aElement, aClassName) ==
  matchText(aClassName, listAttribute(attrs[aElement].ui))

\* the choice of the class with find in place of the catalogs' get: a name that
\* no catalog holds ends in the typecast error
resolveClass_TypecastWhenMissing(aElement, aClassName) ==
  LET c1 == find(compItems, aClassName)
      c2 == find(uiItems, aClassName)
  IN IF uiMatch(aElement, aClassName) /\ c2 # NoClass
     THEN [class |-> c2, error |-> NoError]
     ELSE IF compMatch(aElement, aClassName) /\ c1 # NoClass
     THEN [class |-> c1, error |-> NoError]
     ELSE [class |-> NoClass,
           error |-> Thrown("AKInvalidTypecast", <<aClassName, elemId(aElement)>>)]

\* AKObjectManager.get, the choice of the class: the component catalog's get when
\* the component attribute matches, then the UI catalog's get when a UI token
\* matches (its result replaces the first), then the typecast error when neither
\* matched; a catalog's get throws when it lacks the name
resolveClass(aElement, aClassName) ==
  LET c1 == catalogGet(compItems, aClassName)
      c2 == catalogGet(uiItems, aClassName)
  IN IF compMatch(aElement, aClassName) /\ c1.error # "none"
     THEN [class |-> NoClass, error |-> Thrown(c1.error, <<aClassName>>)]
     ELSE IF uiMatch(aElement, aClassName) /\ c2.error # "none"
     THEN [class |-> NoClass, error |-> Thrown(c2.error, <<aClassName>>)]
     ELSE IF uiMatch(aElement, aClassName) THEN [class |-> c2.class, error |-> NoError]
     ELSE IF compMatch(aElement, aClassName) THEN [class |-> c1.class, error |-> NoError]
     ELSE [class |-> NoClass,
           error |-> Thrown("AKInvalidTypecast", <<aClassName, elemId(aElement)>>)]

\* what one call of get did: its arguments, what it returned or threw, whether the
\* instance returned had finished init(), and whether the call constructed it
GetEvent(aElement, aClassName, error, inst, complete, isNew) ==
  [el |-> aElement, name |-> aClassName, error |-> error, inst |-> inst,
   complete |-> complete, isNew |-> isNew]

getThrows(h, aElement, aClassName, error, before) ==
  [h |-> h, error |-> error, inst |-> 0,
   events |-> before \o <<GetEvent(aElement, aClassName, error, 0, FALSE, FALSE)>>]

getReturns(h, aElement, aClassName, aObject, isNew, before) ==
  [h |-> h, error |-> NoError, inst |-> aObject.id,
   events |-> before \o <<GetEvent(aElement, aClassName, NoError, aObject.id,
                                   aObject.stage = "initialized", isNew)>>]

\* the first assertions of get, without the one on the type name
getPrecondition_IdOnly(aElement, aClassName) == isNonEmptyStr(elemId(aElement))

\* the first assertions of AKObjectManager.get
getPrecondition(aElement, aClassName) ==
  isNonEmptyStr(elemId(aElement)) /\ isNonEmptyStr(aClassName)

RECURSIVE get(_, _, _, _)
\* AKObjectManager.get(aElement, aClassName).  hooks: the get calls made from
\* inside _afterInitialization, the first by the instance this call constructs,
\* the next by the instance that call constructs; an error thrown there is not
\* caught
get(h, aElement, aClassName, hooks) ==
  IF ~getPrecondition(aElement, aClassName)
  THEN getThrows(h, aElement, aClassName, Thrown("AssertionFailure", <<>>), <<>>)
  ELSE
  LET r == resolveClass(aElement, aClassName)
      id == idOf(aElement)
  IN IF r.error # NoError THEN getThrows(h, aElement, aClassName, r.error, <<>>)
     ELSE IF has(h.registry, id, r.class)
     THEN getReturns(h, aElement, aClassName, getAKObject(h.registry, id, r.class), FALSE, <<>>)
     ELSE IF construct(r.class, aElement) # NoError
     THEN getThrows(h, aElement, aClassName, construct(r.class, aElement), <<>>)
     ELSE
     LET name == classNameOf(r.class)
         obj == [id |-> h.created + 1, class |-> r.class, el |-> aElement,
                 stage |-> "constructed"]
         h1 == [h EXCEPT !.created = @ + 1]
         reg == registerObject(h1.registry, obj, id, name)
         h2 == [h1 EXCEPT !.registry = reg.registry]
         h3 == applyClass(h2, id, name)
         nested == IF hooks = <<>> THEN [h |-> h3, error |-> NoError, events |-> <<>>]
                   ELSE get(h3, Head(hooks).el, Head(hooks).name, Tail(hooks))
         h5 == [nested.h EXCEPT !.registry[id].instances[name].stage = "initialized"]
     IN IF reg.error # NoError THEN getThrows(h2, aElement, aClassName, reg.error, <<>>)
        ELSE IF nested.error # NoError
        THEN getThrows(nested.h, aElement, aClassName, nested.error, nested.events)
        ELSE getReturns(h5, aElement, aClassName, h5.registry[id].instances[name], TRUE,
                        nested.events)

RECURSIVE getEach(_, _, _)
\* the successive get calls of enhance, up to the first that throws
getEach(h, aElement, aClassNames) ==
  IF aClassNames = <<>> THEN [h |-> h, error |-> NoError, events |-> <<>>]
  ELSE LET g == get(h, aElement, Head(aClassNames), <<>>)
           rest == getEach(g.h, aElement, Tail(aClassNames))
       IN IF g.error # NoError THEN [h |-> g.h, error |-> g.error, events |-> g.events]
          ELSE [h |-> rest.h, error |-> rest.error, events |-> g.events \o rest.events]

\* the names enhance asks for, in its order: the component attribute when the
\* element has it, then the UI tokens
declared(aElement) ==
  (IF attrs[aElement].comp # NULL THEN <<attrs[aElement].comp>> ELSE <<>>)
    \o listAttribute(attrs[aElement].ui)

\* enhance without its first statement: the component attribute is not looked at
enhance_TokensOnly(h, aElement) ==
  getEach(h, aElement, listAttribute(attrs[aElement].ui))

\* AKObjectManager.enhance
enhance(h, aElement) == getEach(h, aElement, declared(aElement))

\* AKObjectManager.delete
delete(h, aElement) == unregisterNode(h, idOf(aElement))

\* AKObjectManager.listenerAdded
listenerAdded(h, aElement) == addListenerController(h, idOf(aElement))

(* ------------------------------ the tree ------------------------------ *)
Nodes == Elements \cup {"root"}

RECURSIVE isInclusiveAncestor(_, _, _)
\* a is n or an ancestor of n under the parent relation p
isInclusiveAncestor(p, a, n) ==
  IF n = a THEN TRUE
  ELSE IF n \notin Elements THEN FALSE
  ELSE isInclusiveAncestor(p, a, p[n])

\* the node is in the document
isConnected(n) == isInclusiveAncestor(parentElement, "root", n)

\* MutationObserver.observe(root, {childList, subtree}): a child removal is
\* recorded when its parent is in the observed tree, or in a subtree removed from
\* it since the last delivery
isObserved(p) ==
  /\ observing
  /\ \/ isConnected(p)
     \/ \E i \in DOMAIN pending : isInclusiveAncestor(parentElement, pending[i], p)

(* ------------------------- subtree enhancement ------------------------ *)
\* the children of the element under the parent relation p, in document order
children(p, aElement) ==
  SelectSeq(<<"e1", "e2", "e3">>, LAMBDA x : p[x] = aElement)

\* a class whose _applyClass creates a child element of its node when the node
\* has none yet (as AKUiTabPanel creates its header), and the child it creates
CreatorClass == "B"
CreatedChild == "e3"

\* the tree after enhance(aElement) took the registry from h to h1: the child is
\* appended when the call constructed the creator class on the element
createdByApply(p, h, h1, aElement) ==
  IF /\ aElement # CreatedChild
     /\ p[CreatedChild] = NoNode
     /\ ~has(h.registry, idOf(aElement), CreatorClass)
     /\ has(h1.registry, idOf(aElement), CreatorClass)
  THEN [p EXCEPT ![CreatedChild] = aElement]
  ELSE p

\* enhanceElement that stops at the element it is given
enhanceElement_RootOnly(h, p, aElement) ==
  LET g == enhance(h, aElement)
  IN [h |-> g.h, p |-> createdByApply(p, h, g.h, aElement), error |-> g.error,
      visited |-> <<aElement>>]

\* the result of a traversal with the elements v visited before it
visitedAfter(v, c) == [c EXCEPT !.visited = v \o @]

RECURSIVE enhanceElement(_, _, _)
RECURSIVE enhanceChildren(_, _, _)
RECURSIVE enhanceDescend(_, _, _, _)
RECURSIVE enhanceRest(_, _)
\* enhanceElement: enhance on the element, then enhanceElement on each of its
\* children; an error ends the whole call.  visited: the elements in the order in
\* which enhance was called on them
enhanceElement(h, p, aElement) == enhanceDescend(h, p, aElement, enhance(h, aElement))

\* enhanceElement after its enhance call returned g
enhanceDescend(h, p, aElement, g) ==
  LET p1 == createdByApply(p, h, g.h, aElement)
  IN IF g.error # NoError
     THEN [h |-> g.h, p |-> p1, error |-> g.error, visited |-> <<aElement>>]
     ELSE visitedAfter(<<aElement>>, enhanceChildren(g.h, p1, children(p1, aElement)))

\* the for loop of enhanceElement over aElement.children
enhanceChildren(h, p, aChildren) ==
  IF aChildren = <<>> THEN [h |-> h, p |-> p, error |-> NoError, visited |-> <<>>]
  ELSE enhanceRest(enhanceElement(h, p, Head(aChildren)), Tail(aChildren))

\* the loop after the call on its first child returned: the error leaves the
\* loop, otherwise the remaining children follow
enhanceRest(first, aChildren) ==
  IF first.error # NoError THEN first
  ELSE visitedAfter(first.visited, enhanceChildren(first.h, first.p, aChildren))

(* ---------------------------- parent query --------------------------- *)
RECURSIVE firstTyped(_, _)
\* the loop of AKUiElement.is: the class of the first token that the UI catalog
\* holds and that inherits from the class is was called on
firstTyped(aTokens, aThis) ==
  IF aTokens = <<>> THEN NoClass
  ELSE LET akClass == find(uiItems, Head(aTokens))
       IN IF akClass # NoClass /\ isDescendant(akClass, aThis) THEN akClass
          ELSE firstTyped(Tail(aTokens), aThis)

\* the static is(aElement) of AKUiElement and of AKComponent, called on aThis
is(aThis, aElement) ==
  IF isDescendant(aThis, "AKUiElement")
  THEN firstTyped(listAttribute(attrs[aElement].ui), aThis)
  ELSE LET akClassName == attrs[aElement].comp
           akClass == find(compItems, akClassName)
       IN IF isNonEmptyStr(akClassName) /\ akClass # NoClass /\ isDescendant(akClass, aThis)
          THEN akClass
          ELSE NoClass

\* the class the parent getter calls is on: AKUiElement in AKUiElement.parent,
\* AKComponent in AKComponent.parent, whatever the class of the instance
familyRoot(aClass) ==
  IF isDescendant(aClass, "AKUiElement") THEN "AKUiElement" ELSE "AKComponent"

\* the parent getter without its loop: only the immediate parent is tested
parentFrom_ImmediateOnly(h, aNode, aThis) ==
  IF aNode \in Elements /\ is(aThis, aNode) # NoClass
  THEN get(h, aNode, classNameOf(is(aThis, aNode)), <<>>)
  ELSE [h |-> h, error |-> NoError, inst |-> 0, events |-> <<>>]

RECURSIVE parentFrom(_, _, _)
\* the while loop of the parent getter, from the node result
parentFrom(h, aNode, aThis) ==
  IF aNode \notin Elements THEN [h |-> h, error |-> NoError, inst |-> 0, events |-> <<>>]
  ELSE IF is(aThis, aNode) # NoClass
  THEN get(h, aNode, classNameOf(is(aThis, aNode)), <<>>)
  ELSE parentFrom(h, parentElement[aNode], aThis)

RECURSIVE visitedFrom(_, _)
\* the values result takes in the while loop of the parent getter, from the node
\* aNode on: the loop leaves at the first node that is() accepts
visitedFrom(aNode, aThis) ==
  IF aNode \notin Elements THEN <<>>
  ELSE IF is(aThis, aNode) # NoClass THEN <<aNode>>
  ELSE <<aNode>> \o visitedFrom(parentElement[aNode], aThis)

\* the parent getter of the instance aObject
parent(h, aObject) == parentFrom(h, parentElement[aObject.el], familyRoot(aObject.class))

(* --------------------------- teardown pipeline ------------------------ *)
\* dispatchEvent(new CustomEvent(type)) on the node: the listeners that run
dispatchEvent(h, aNode, aType) ==
  {l \in h.listeners : l.el = aNode /\ l.type = aType /\ ~h.controllers[l.signal]}

RECURSIVE observeDestroy(_, _)
\* observeDestroy: for each removed node in turn, the destroy event, then delete.
\* The listeners the event runs (dispatchEvent) are the page's handlers, which
\* write none of the variables; descendants of a removed node are not in the
\* record's removedNodes and are not visited
observeDestroy(h, aRemovedNodes) ==
  IF aRemovedNodes = <<>> THEN h
  ELSE observeDestroy(delete(h, Head(aRemovedNodes)), Tail(aRemovedNodes))

RECURSIVE observeDestroySteps_DeleteFirst(_, _)
\* the callback with its two statements exchanged: delete, then the destroy event
observeDestroySteps_DeleteFirst(h, aRemovedNodes) ==
  IF aRemovedNodes = <<>> THEN <<>>
  ELSE LET aNode == Head(aRemovedNodes)
           h1 == delete(h, aNode)
       IN <<[node |-> aNode, before |-> h, fired |-> dispatchEvent(h1, aNode, "destroy"),
             after |-> h1]>>
          \o observeDestroySteps_DeleteFirst(h1, Tail(aRemovedNodes))

RECURSIVE observeDestroySteps(_, _)
\* what observeDestroy does for each removed node in turn: the registry state
\* when the destroy event is dispatched, the listeners the event runs, and the
\* state when delete has returned
observeDestroySteps(h, aRemovedNodes) ==
  IF aRemovedNodes = <<>> THEN <<>>
  ELSE LET aNode == Head(aRemovedNodes)
           h1 == delete(h, aNode)
       IN <<[node |-> aNode, before |-> h, fired |-> dispatchEvent(h, aNode, "destroy"),
             after |-> h1]>>
          \o observeDestroySteps(h1, Tail(aRemovedNodes))

(* ------------------------------- state -------------------------------- *)
H == [registry |-> registry, created |-> created, controllers |-> controllers,
      listeners |-> listeners]

SetHeap(h) ==
  /\ registry' = h.registry
  /\ created' = h.created
  /\ controllers' = h.controllers
  /\ listeners' = h.listeners

WithinBounds(h) == h.created <= MaxInst /\ Len(h.controllers) <= MaxCtrl

Init ==
  /\ uiItems = EmptyMap
  /\ compItems = EmptyMap
  /\ className = [c \in Classes |-> NULL]
  /\ attrs = [e \in Elements |-> [comp |-> NULL, ui |-> IF e = "e1" THEN NULL ELSE foo]]
  /\ parentElement = [e \in Elements |-> IF e = "e1" THEN "root" ELSE "e1"]
  /\ observing = FALSE
  /\ pending = <<>>
  /\ registry = EmptyMap
  /\ created = 0
  /\ controllers = <<>>
  /\ listeners = {}

\* Element.prototype.asAKObject: get called by other than an instance's hook
asAKObject(aElement, aClassName) == get(H, aElement, aClassName, <<>>)

(* ------------------------------ actions ------------------------------- *)
\* the registrations a page makes: each class under its own name
Declared ==
  {[family |-> "ui", name |-> foo, class |-> "A"],
   [family |-> "ui", name |-> Bar, class |-> "B"],
   [family |-> "comp", name |-> Foo, class |-> "K"],
   [family |-> "comp", name |-> Bar, class |-> "L"]}

\* the element the engine specification acts on
Mutable == {"e1"}
ComponentAttrValues == {NULL, Foo, Bar}
UiAttrValues == {NULL, foo, fooBar}

\* what _afterInitialization does: nothing, or one get call whose own instance's
\* hook does nothing
HookCalls == [el : Mutable, name : Names]
Hooks == {<<>>} \cup {<<c>> : c \in HookCalls}

\* external code sets or removes one of the two attributes of an element
SetAttribute(aElement, aComp, aUi) ==
  /\ attrs' = [attrs EXCEPT ![aElement] = [comp |-> aComp, ui |-> aUi]]
  /\ attrs' # attrs
  /\ \/ aComp = attrs[aElement].comp
     \/ aUi = attrs[aElement].ui
  /\ UNCHANGED <<catalogVars, parentElement, observing, pending, heapVars>>

Get(aElement, aClassName, hooks) ==
  \E g \in {get(H, aElement, aClassName, hooks)} :
     /\ WithinBounds(g.h)
     /\ SetHeap(g.h)
     /\ UNCHANGED <<catalogVars, domVars>>

Enhance(aElement) ==
  \E g \in {enhance(H, aElement)} :
     /\ WithinBounds(g.h)
     /\ SetHeap(g.h)
     /\ UNCHANGED <<catalogVars, domVars>>

ListenerAdded(aElement) ==
  \E a \in {listenerAdded(H, aElement)} :
     /\ WithinBounds(a.h)
     /\ SetHeap(a.h)
     /\ UNCHANGED <<catalogVars, domVars>>

Delete(aElement) ==
  /\ SetHeap(delete(H, aElement))
  /\ UNCHANGED <<catalogVars, domVars>>

\* a removal that cleans up at once: the node's entry is deleted by remove()
Remove_Synchronous(aNode) ==
  /\ parentElement[aNode] # NoNode
  /\ parentElement' = [parentElement EXCEPT ![aNode] = NoNode]
  /\ IF isObserved(parentElement[aNode])
     THEN /\ Len(pending) < MaxPending
          /\ pending' = Append(pending, aNode)
          /\ SetHeap(delete(H, aNode))
     ELSE pending' = pending /\ UNCHANGED heapVars
  /\ UNCHANGED <<catalogVars, attrs, observing>>

\* aNode.remove()
Remove(aNode) ==
  /\ parentElement[aNode] # NoNode
  /\ parentElement' = [parentElement EXCEPT ![aNode] = NoNode]
  /\ IF isObserved(parentElement[aNode])
     THEN /\ Len(pending) < MaxPending
          /\ pending' = Append(pending, aNode)
     ELSE pending' = pending
  /\ UNCHANGED <<catalogVars, attrs, observing, heapVars>>

\* aParent.appendChild(aNode), for a node that is in no tree
AppendChild(aParent, aNode) ==
  /\ parentElement[aNode] = NoNode
  /\ ~isInclusiveAncestor(parentElement, aNode, aParent)
  /\ parentElement' = [parentElement EXCEPT ![aNode] = aParent]
  /\ UNCHANGED <<catalogVars, attrs, observing, pending, heapVars>>

\* an instance registered on the element reads its parent
Parent(aElement) ==
  /\ idOf(aElement) \in DOMAIN registry
  /\ \E k \in DOMAIN registry[idOf(aElement)].instances :
       \E p \in {parent(H, registry[idOf(aElement)].instances[k])} :
          /\ WithinBounds(p.h)
          /\ SetHeap(p.h)
          /\ UNCHANGED <<catalogVars, domVars>>

EnhanceElement(aElement) ==
  \E x \in {enhanceElement(H, parentElement, aElement)} :
     /\ WithinBounds(x.h)
     /\ SetHeap(x.h)
     /\ parentElement' = x.p
     /\ UNCHANGED <<catalogVars, attrs, observing, pending>>

StartDestroyObserver ==
  /\ ~observing
  /\ observing' = TRUE
  /\ UNCHANGED <<catalogVars, attrs, parentElement, pending, heapVars>>

\* the host delivers the queued records to the observer's callback
ObserveDestroy ==
  /\ pending # <<>>
  /\ SetHeap(observeDestroy(H, pending))
  /\ pending' = <<>>
  /\ UNCHANGED <<catalogVars, attrs, parentElement, observing>>

(* --------------------------- specifications --------------------------- *)
\* the attachment engine: catalogs filled while elements are resolved, enhanced
\* and detached and external code rewrites attributes
Next ==
  \/ \E d \in Declared : Register(d.family, d.name, d.class)
  \/ \E e \in Mutable, c \in ComponentAttrValues, u \in UiAttrValues : SetAttribute(e, c, u)
  \/ \E e \in Mutable \cup {Anonymous}, n \in Names \cup EmptyNames, hooks \in Hooks :
       Get(e, n, hooks)
  \/ \E e \in Mutable : Enhance(e)
  \/ \E e \in Mutable : Delete(e)

Spec == Init /\ [][Next]_vars

\* the teardown pipeline: a page whose classes are registered and whose elements
\* are declared, resolved and enhanced while nodes leave and enter the tree
InitTeardown ==
  /\ uiItems = Put(Put(EmptyMap, foo, "A"), toLowerCase(Bar), "B")
  /\ compItems = Put(EmptyMap, toLowerCase(Foo), "K")
  /\ className = [c \in Classes |->
                   CASE c = "A" -> foo [] c = "B" -> Bar [] c = "K" -> Foo [] OTHER -> NULL]
  /\ attrs = [e \in Elements |->
                IF e = "e1" THEN [comp |-> Foo, ui |-> fooBar] ELSE [comp |-> NULL, ui |-> foo]]
  /\ parentElement = [e \in Elements |-> IF e = "e1" THEN "root" ELSE "e1"]
  /\ observing = FALSE
  /\ pending = <<>>
  /\ registry = EmptyMap
  /\ created = 0
  /\ controllers = <<>>
  /\ listeners = {}

\* the nodes the page moves and resolves
Movable == {"e1", "e2"}

NextTeardown ==
  \/ \E e \in Movable, n \in Names : Get(e, n, <<>>)
  \/ \E e \in Movable : Enhance(e)
  \/ \E e \in Movable : ListenerAdded(e)
  \/ \E e \in Movable : Remove(e)
  \/ \E p \in Movable \cup {"root"}, e \in Movable : AppendChild(p, e)
  \/ StartDestroyObserver
  \/ ObserveDestroy

SpecTeardown == InitTeardown /\ [][NextTeardown]_vars

\* parent queries: e3 under e2 under e1, the classes registered; e3 carries a
\* component and a UI element, the attributes of its ancestors are rewritten
InitParent ==
  /\ uiItems = Put(Put(EmptyMap, foo, "A"), toLowerCase(Bar), "B")
  /\ compItems = Put(EmptyMap, toLowerCase(Foo), "K")
  /\ className = [c \in Classes |->
                   CASE c = "A" -> foo [] c = "B" -> Bar [] c = "K" -> Foo [] OTHER -> NULL]
  /\ attrs = [e \in Elements |->
                IF e = "e3" THEN [comp |-> Foo, ui |-> Bar] ELSE [comp |-> NULL, ui |-> NULL]]
  /\ parentElement = [e \in Elements |->
                        CASE e = "e1" -> "root" [] e = "e2" -> "e1" [] OTHER -> "e2"]
  /\ observing = FALSE
  /\ pending = <<>>
  /\ registry = EmptyMap
  /\ created = 0
  /\ controllers = <<>>
  /\ listeners = {}

NextParent ==
  \/ \E e \in Movable, c \in ComponentAttrValues, u \in UiAttrValues : SetAttribute(e, c, u)
  \/ \E n \in Names : Get("e3", n, <<>>)
  \/ \E e \in Elements : Parent(e)
  \/ \E e \in Elements : Delete(e)

SpecParent == InitParent /\ [][NextParent]_vars

\* subtree enhancement: e2 under e1, the classes registered; the attributes of
\* e1 and e2 are rewritten, and e3, which declares the UI class foo, is out of the
\* tree until the apply step of B creates it
InitSubtree ==
  /\ uiItems = Put(Put(EmptyMap, foo, "A"), toLowerCase(Bar), "B")
  /\ compItems = Put(EmptyMap, toLowerCase(Foo), "K")
  /\ className = [c \in Classes |->
                   CASE c = "A" -> foo [] c = "B" -> Bar [] c = "K" -> Foo [] OTHER -> NULL]
  /\ attrs = [e \in Elements |->
                IF e = CreatedChild THEN [comp |-> NULL, ui |-> foo]
                ELSE [comp |-> NULL, ui |-> NULL]]
  /\ parentElement = [e \in Elements |->
                        CASE e = "e1" -> "root" [] e = "e2" -> "e1" [] OTHER -> NoNode]
  /\ observing = FALSE
  /\ pending = <<>>
  /\ registry = EmptyMap
  /\ created = 0
  /\ controllers = <<>>
  /\ listeners = {}

NextSubtree ==
  \/ \E c \in ComponentAttrValues, u \in UiAttrValues : SetAttribute("e1", c, u)
  \/ \E c \in {NULL, Foo}, u \in {NULL, foo} : SetAttribute("e2", c, u)
  \/ \E e \in Elements : EnhanceElement(e)
  \/ \E e \in Elements : Delete(e)
  \/ Remove(CreatedChild)

SpecSubtree == InitSubtree /\ [][NextSubtree]_vars

\* two nodes of one identity: e1 and its twin declare the UI class foo; the twin
\* is out of the tree at first, and both are resolved, removed and inserted
\* under the observed root
Twins == {"e1", Twin}

InitIdentity ==
  /\ uiItems = Put(Put(EmptyMap, foo, "A"), toLowerCase(Bar), "B")
  /\ compItems = Put(EmptyMap, toLowerCase(Foo), "K")
  /\ className = [c \in Classes |->
                   CASE c = "A" -> foo [] c = "B" -> Bar [] c = "K" -> Foo [] OTHER -> NULL]
  /\ attrs = [e \in Elements \cup {Twin} |->
                IF e \in Twins THEN [comp |-> NULL, ui |-> fooBar]
                ELSE [comp |-> NULL, ui |-> NULL]]
  /\ parentElement = [e \in Elements \cup {Twin} |->
                        CASE e = "e1" -> "root" [] e = Twin -> NoNode [] OTHER -> "e1"]
  /\ observing = FALSE
  /\ pending = <<>>
  /\ registry = EmptyMap
  /\ created = 0
  /\ controllers = <<>>
  /\ listeners = {}

NextIdentity ==
  \/ \E e \in Twins, n \in Names : Get(e, n, <<>>)
  \/ \E e \in Twins : ListenerAdded(e)
  \/ \E e \in Twins : Remove(e)
  \/ \E e \in Twins : AppendChild("root", e)
  \/ StartDestroyObserver
  \/ ObserveDestroy

SpecIdentity == InitIdentity /\ [][NextIdentity]_vars

\* catalogs that change under the engine: the name foo is registered,
\* unregistered and registered again with another class while e2, which declares
\* the UI class foo, is resolved and detached and its component attribute is
\* rewritten
Resolved == {"e2"}

NextReregister ==
  \/ \E c \in UiClasses : Register("ui", foo, c)
  \/ \E c \in ComponentClasses : Register("comp", Foo, c)
  \/ \E f \in Families : Unregister(f, Foo)
  \/ \E e \in Resolved, c \in {NULL, Foo} : SetAttribute(e, c, foo)
  \/ \E e \in Resolved, n \in Names : Get(e, n, <<>>)
  \/ \E e \in Resolved : Delete(e)

SpecReregister == Init /\ [][NextReregister]_vars

\* unmanaged nodes: e1 sits under an element that has no id; both have their
\* attributes set, emptied and removed while they are enhanced, alone and as a
\* subtree, and detached
Unmanaged == {Anonymous, "e1"}
EmptiedUiAttrValues == {NULL, <<>>, foo}

InitUnmanaged ==
  /\ uiItems = Put(Put(EmptyMap, foo, "A"), toLowerCase(Bar), "B")
  /\ compItems = Put(EmptyMap, toLowerCase(Foo), "K")
  /\ className = [c \in Classes |->
                   CASE c = "A" -> foo [] c = "B" -> Bar [] c = "K" -> Foo [] OTHER -> NULL]
  /\ attrs = [e \in Elements \cup {Anonymous} |->
                IF e = "e1" THEN [comp |-> NULL, ui |-> foo] ELSE [comp |-> NULL, ui |-> NULL]]
  /\ parentElement = [e \in Elements \cup {Anonymous} |->
                        CASE e = Anonymous -> "root" [] e = "e1" -> Anonymous
                          [] OTHER -> NoNode]
  /\ observing = FALSE
  /\ pending = <<>>
  /\ registry = EmptyMap
  /\ created = 0
  /\ controllers = <<>>
  /\ listeners = {}

NextUnmanaged ==
  \/ \E e \in Unmanaged, c \in {NULL, Foo}, u \in EmptiedUiAttrValues : SetAttribute(e, c, u)
  \/ \E e \in Unmanaged : Enhance(e)
  \/ EnhanceElement(Anonymous)
  \/ ListenerAdded("e1")
  \/ \E e \in Unmanaged : Delete(e)

SpecUnmanaged == InitUnmanaged /\ [][NextUnmanaged]_vars

\* parent queries in a tree that changes: the instances of e3 read their parent
\* while e1 and e2 are retyped, taken out of the tree and put back
AncestorComponentValues == {NULL, Foo, Bar}
AncestorUiValues == {NULL, foo, Bar}

NextAncestor ==
  \/ \E c \in AncestorComponentValues, u \in AncestorUiValues : SetAttribute("e1", c, u)
  \/ \E u \in {NULL, foo} : SetAttribute("e2", NULL, u)
  \/ \E n \in Names : Get("e3", n, <<>>)
  \/ Parent("e3")
  \/ Remove("e2")
  \/ \E p \in {"e1", "root"} : AppendChild(p, "e2")
  \/ \E e \in Elements : Delete(e)

SpecAncestor == InitParent /\ [][NextAncestor]_vars

\* the catalogs alone: any of three classes registered under any name, the empty
\* string included, in either catalog
CatalogNames == {Foo, foo, Bar, <<>>}
CatalogClasses == {"A", "B", "K"}

NextCatalog ==
  \/ \E f \in Families, n \in CatalogNames, c \in CatalogClasses : Register(f, n, c)
  \/ \E f \in Families, n \in CatalogNames : Unregister(f, n)

SpecCatalog == Init /\ [][NextCatalog]_vars

(* ------------------------------ properties ---------------------------- *)
\* the instances of a registry entry
InstancesOf(reg, aId) == {reg[aId].instances[k] : k \in DOMAIN reg[aId].instances}
\* the event types of the model's handlers
EventTypes == {"destroy", "click"}
\* the listeners that an event of the type on the node would run now
Firing(aNode, aType) == dispatchEvent(H, aNode, aType)

C2_CleanupComplete ==
  [][(pending # <<>> /\ pending' = <<>>) =>
       \A r \in {pending[i] : i \in DOMAIN pending} :
         /\ idOf(r) \notin DOMAIN registry'
         /\ idOf(r) \in DOMAIN registry =>
              LET item == registry[idOf(r)]
                  signals == {item.controllers[j] : j \in DOMAIN item.controllers}
              IN /\ \A c \in signals : controllers'[c]
                 /\ \A l \in listeners' : l.signal \notin signals
                 /\ \A e \in Elements, t \in EventTypes :
                      \A l \in Firing(e, t) : l.signal \in signals => l \notin listeners'
                 /\ <<catalogVars, attrs>>' = <<catalogVars, attrs>>
                 /\ \E after \in {[registry |-> registry', created |-> created',
                                   controllers |-> controllers', listeners |-> listeners']} :
                      \A n \in Names :
                        get(after, r, n, <<>>).error = NoError
                          => /\ get(after, r, n, <<>>).events[1].isNew
                             /\ get(after, r, n, <<>>).inst > created]_vars

\* e1, which had at least two instances and three subscriptions, is out of the
\* tree and the batch that named it has been processed
C2_Witness ==
  /\ parentElement["e1"] = NoNode
  /\ pending = <<>>
  /\ idOf("e1") \notin DOMAIN registry
  /\ idOf("e2") \notin DOMAIN registry
  /\ created \in {2, 3}
  /\ Len(controllers) = 3
  /\ \A c \in DOMAIN controllers : controllers[c]
  /\ asAKObject("e1", Bar).error = NoError
  /\ asAKObject("e1", Bar).events[1].isNew

\* C3 as stated: when the observer's callback has processed a batch, no element of
\* a removed subtree keeps a registry entry, be it the node the record names or a
\* descendant that left the tree inside it.
C3_SubtreePurged ==
  [][(pending # <<>> /\ pending' = <<>>) =>
       \A n \in Elements :
         (\E i \in DOMAIN pending : isInclusiveAncestor(parentElement, pending[i], n))
           => idOf(n) \notin DOMAIN registry']_vars

\* C4 as stated: no call of get, the calls made from inside the initialization
\* of the instance under construction included, returns an instance whose init()
\* has not completed.
C4_NoPartialInstance ==
  \A e \in Mutable, n \in Names, hooks \in Hooks :
    \A i \in DOMAIN get(H, e, n, hooks).events :
      get(H, e, n, hooks).events[i].error = NoError
        => get(H, e, n, hooks).events[i].complete

\* C5 as stated: when the component attribute of the node equals the requested
\* name without case, the instance a successful get returns is of the class the
\* component catalog holds for the name, whatever the UI tokens of the node.
C5_ExclusiveCatalogFirst ==
  \A e \in Mutable, n \in Names :
    (compMatch(e, n) /\ asAKObject(e, n).error = NoError)
      => \E o \in InstancesOf(asAKObject(e, n).h.registry, idOf(e)) :
           /\ o.id = asAKObject(e, n).inst
           /\ o.class = find(compItems, n)

\* the requested name matches a declared binding whose catalog lacks it
MissingInCatalog(aElement, aClassName) ==
  \/ compMatch(aElement, aClassName) /\ find(compItems, aClassName) = NoClass
  \/ uiMatch(aElement, aClassName) /\ find(uiItems, aClassName) = NoClass
\* the requested name matches neither attribute of the node
NoMatch(aElement, aClassName) ==
  ~compMatch(aElement, aClassName) /\ ~uiMatch(aElement, aClassName)

\* C6, as the code has it: get fails with AKInvalidTypecast, naming the requested
\* type and the element's id, when the name matches neither attribute, and a get
\* made from outside a hook fails so only then; when the name matches a declared
\* binding whose catalog lacks it, get fails with the catalog's AssertionFailure,
\* which names the requested type alone.  In both cases nothing is constructed
\* and registry, controllers and listeners are unchanged.
C6_Failures ==
  \A e \in Elements, n \in Names :
    /\ \A hooks \in Hooks :
         /\ NoMatch(e, n) =>
              /\ get(H, e, n, hooks).error = Thrown("AKInvalidTypecast", <<n, elemId(e)>>)
              /\ get(H, e, n, hooks).h = H
         /\ MissingInCatalog(e, n) =>
              /\ get(H, e, n, hooks).error = Thrown("AssertionFailure", <<n>>)
              /\ get(H, e, n, hooks).h = H
    /\ asAKObject(e, n).error.name = "AKInvalidTypecast" => NoMatch(e, n)

\* e1 holds an instance and declares a UI token that the UI catalog lacks, and
\* e2 declares no binding for Bar
C6_Witness ==
  /\ idOf("e1") \in DOMAIN registry
  /\ InstancesOf(registry, idOf("e1")) # {}
  /\ uiMatch("e1", Bar) /\ find(uiItems, Bar) = NoClass
  /\ asAKObject("e1", Bar).error.name = "AssertionFailure"
  /\ NoMatch("e2", Bar)
  /\ asAKObject("e2", Bar).error.name = "AKInvalidTypecast"

\* C6 as stated: in both cases the failure is AKInvalidTypecast, naming the
\* requested type and the element's id, and the registry is unchanged.
C6_AlwaysTypecast ==
  \A e \in Mutable, n \in Names :
    (NoMatch(e, n) \/ MissingInCatalog(e, n))
      => /\ asAKObject(e, n).error = Thrown("AKInvalidTypecast", <<n, elemId(e)>>)
         /\ asAKObject(e, n).h = H

\* C7, as the code has it: on a node that has a component attribute, get of a
\* name held by the UI catalog that differs from the attribute and is none of the
\* node's UI tokens fails with AKInvalidTypecast; and get of the attribute's own
\* name succeeds only if the component catalog holds it.
C7_Exclusivity ==
  \A e \in Mutable, n \in Names :
    attrs[e].comp # NULL =>
      /\ (/\ find(uiItems, n) # NoClass
          /\ ~sameText(n, attrs[e].comp)
          /\ \A i \in DOMAIN listAttribute(attrs[e].ui) :
               ~sameText(n, listAttribute(attrs[e].ui)[i]))
           => asAKObject(e, n).error = Thrown("AKInvalidTypecast", <<n, elemId(e)>>)
      /\ (sameText(n, attrs[e].comp) /\ asAKObject(e, n).error = NoError)
           => find(compItems, n) # NoClass

\* e1 is the component Foo, holds its instance and has no UI token, and the UI
\* catalog holds Bar
C7_Witness ==
  /\ attrs["e1"] = [comp |-> Foo, ui |-> NULL]
  /\ find(uiItems, Bar) = "B"
  /\ idOf("e1") \in DOMAIN registry
  /\ \E o \in InstancesOf(registry, idOf("e1")) : o.class = "K"
  /\ asAKObject("e1", Bar).error.name = "AKInvalidTypecast"

\* C7 as stated: on a node that has a component attribute, get of any other name
\* held by the UI catalog fails with AKInvalidTypecast.
C7_AnyUiTypeFails ==
  \A e \in Mutable, n \in Names :
    (attrs[e].comp # NULL /\ ~sameText(n, attrs[e].comp) /\ find(uiItems, n) # NoClass)
      => asAKObject(e, n).error.name = "AKInvalidTypecast"

\* C8 as stated: the entry of a node identity never holds more than one instance
\* of a class that descends from AKComponent.
C8_OneComponent ==
  \A id \in DOMAIN registry :
    Cardinality({o \in InstancesOf(registry, id) : isDescendant(o.class, "AKComponent")}) <= 1

\* C9: in either catalog, when a name is held under any casing, register of the
\* name under any casing with any class returns without failing and changes
\* nothing: the catalog is the same, find and get of the name answer the class
\* registered first, and no class's className is written.
C9_FirstWins ==
  \A f \in Families, n \in CatalogNames, c \in CatalogClasses :
    find(Items(f), n) # NoClass =>
      \E r \in {register(Items(f), className, n, c)} :
        /\ r.error = "none"
        /\ r.items = Items(f)
        /\ r.names = className
        /\ find(r.items, n) = find(Items(f), n)
        /\ catalogGet(r.items, n) = [class |-> find(Items(f), n), error |-> "none"]

\* A was registered as Foo in the UI catalog, and B, offered under the same name,
\* is in no catalog and has no name
C9_Witness ==
  /\ uiItems = Put(EmptyMap, foo, "A")
  /\ className["A"] = Foo
  /\ className["B"] = NULL
  /\ compItems # EmptyMap

\* C10 as stated: in either catalog, contains of a name is true exactly when find
\* of the name returns a class, and contains of an array of names is true exactly
\* when find returns a class for each of them.
C10_ContainsAgreesWithFind ==
  \A f \in Families :
    /\ \A n \in CatalogNames : contains(Items(f), n) <=> find(Items(f), n) # NoClass
    /\ containsAll(Items(f), <<>>)
    /\ \A n1 \in CatalogNames, n2 \in CatalogNames :
         containsAll(Items(f), <<n1, n2>>)
           <=> (find(Items(f), n1) # NoClass /\ find(Items(f), n2) # NoClass)

\* the names a caller may pass to a catalog: the strings, and a value that is no
\* string
AnyNames == CatalogNames \cup {NULL}

\* C11: in either catalog and for every name, the empty string and a non-string
\* included, find returns the class held under the lower-cased name, or null when
\* there is none or the name is no non-empty string; get returns what find
\* returns when that is a class, and fails with the catalog's lookup error (an
\* AssertionFailure) when find returns null.  Both only read #ITEMS.
C11_Lookup ==
  \A f \in Families, n \in AnyNames :
    /\ find(Items(f), n) =
         IF n # NULL /\ n # <<>> /\ toLowerCase(n) \in DOMAIN Items(f)
         THEN Items(f)[toLowerCase(n)] ELSE NoClass
    /\ find(Items(f), n) \in CatalogClasses \cup {NoClass}
    /\ find(Items(f), n) # NoClass
         => catalogGet(Items(f), n) = [class |-> find(Items(f), n), error |-> "none"]
    /\ find(Items(f), n) = NoClass
         => catalogGet(Items(f), n).error = "AssertionFailure"

\* the UI catalog holds A, registered as Foo, and holds nothing under Bar
C11_Witness ==
  /\ className["A"] = Foo
  /\ find(uiItems, foo) = "A"
  /\ catalogGet(uiItems, Foo).class = "A"
  /\ find(uiItems, Bar) = NoClass
  /\ catalogGet(uiItems, Bar).error = "AssertionFailure"
  /\ find(compItems, Foo) = NoClass

\* C12: in either catalog, unregister of a name never fails; afterwards find of
\* the name returns null and register of the name with a class binds that class;
\* when find of the name returned null before, or the name is empty or no
\* string, the catalog is unchanged; and the entries of all other names are as
\* they were.
C12_Unregister ==
  \A f \in Families, n \in AnyNames :
    \E u \in {unregister(Items(f), n)} :
      /\ find(u, n) = NoClass
      /\ (n # NULL /\ n # <<>>) =>
           \A c \in CatalogClasses :
             /\ register(u, className, n, c).error = "none"
             /\ find(register(u, className, n, c).items, n) = c
             /\ register(u, className, n, c).names[c] = n
      /\ find(Items(f), n) = NoClass => u = Items(f)
      /\ DOMAIN u \subseteq DOMAIN Items(f)
      /\ \A k \in DOMAIN Items(f) :
           (n = NULL \/ k # toLowerCase(n)) => k \in DOMAIN u /\ u[k] = Items(f)[k]

\* A was registered as Foo and unregistered while B stays registered as Bar in
\* the same catalog
C12_Witness ==
  /\ className["A"] = Foo
  /\ compItems = EmptyMap
  /\ uiItems = Put(EmptyMap, toLowerCase(Bar), "B")
  /\ className["B"] = Bar

\* the node's UI tokens hold both names, which differ, and the UI catalog holds both
TwoUiTypes(aElement, aFirst, aSecond) ==
  /\ ~sameText(aFirst, aSecond)
  /\ uiMatch(aElement, aFirst) /\ find(uiItems, aFirst) # NoClass
  /\ uiMatch(aElement, aSecond) /\ find(uiItems, aSecond) # NoClass
\* get of the first name, then get of the second: both succeed with different
\* instances, and the first instance is still in the entry, unchanged, and is
\* what a further get of the first name returns
BothAttach(aElement, aFirst, aSecond) ==
  \E g1 \in {get(H, aElement, aFirst, <<>>)} :
    /\ g1.error = NoError
    /\ \E g2 \in {get(g1.h, aElement, aSecond, <<>>)} :
         /\ g2.error = NoError
         /\ g2.inst # g1.inst
         /\ \A o \in InstancesOf(g1.h.registry, idOf(aElement)) :
              o \in InstancesOf(g2.h.registry, idOf(aElement))
         /\ \E o \in InstancesOf(g2.h.registry, idOf(aElement)) : o.id = g1.inst
         /\ \E o \in InstancesOf(g2.h.registry, idOf(aElement)) : o.id = g2.inst
         /\ get(g2.h, aElement, aFirst, <<>>).inst = g1.inst
         /\ get(g2.h, aElement, aFirst, <<>>).h = g2.h

AllRegistered(aElement) ==
  /\ attrs[aElement].comp # NULL => find(compItems, attrs[aElement].comp) # NoClass
  /\ \A i \in DOMAIN listAttribute(attrs[aElement].ui) :
       find(uiItems, listAttribute(attrs[aElement].ui)[i]) # NoClass
\* the class the catalog of the i-th declared binding holds for it
BoundClass(aElement, i) ==
  IF attrs[aElement].comp # NULL /\ i = 1
  THEN find(compItems, declared(aElement)[i])
  ELSE find(uiItems, declared(aElement)[i])
\* no two declared bindings of the element have the same name, case apart
DistinctBindings(aElement) ==
  \A i \in DOMAIN declared(aElement), j \in DOMAIN declared(aElement) :
    i # j => ~sameText(declared(aElement)[i], declared(aElement)[j])
\* enhance on an element without entry succeeds and leaves one instance per
\* declared binding, each of the class its catalog holds
OnePerBinding(aElement) ==
  \E g \in {enhance(H, aElement)} :
    /\ g.error = NoError
    /\ IF declared(aElement) = <<>> THEN g.h = H
       ELSE /\ idOf(aElement) \in DOMAIN g.h.registry
            /\ Cardinality(InstancesOf(g.h.registry, idOf(aElement))) = Len(declared(aElement))
            /\ \A i \in DOMAIN declared(aElement) :
                 \E o \in InstancesOf(g.h.registry, idOf(aElement)) :
                   o.class = BoundClass(aElement, i)

Typed(aRoot, aElement) ==
  IF aRoot = "AKUiElement"
  THEN \E i \in DOMAIN listAttribute(attrs[aElement].ui) :
          LET c == find(uiItems, listAttribute(attrs[aElement].ui)[i])
          IN c # NoClass /\ isDescendant(c, aRoot)
  ELSE LET c == find(compItems, attrs[aElement].comp)
       IN c # NoClass /\ isDescendant(c, aRoot)

\* a is a proper ancestor of the element n
isAncestor(a, n) ==
  /\ a \in Elements
  /\ parentElement[n] \in Elements
  /\ isInclusiveAncestor(parentElement, a, parentElement[n])

\* a is the nearest proper ancestor of n that is typed in the family
Nearest(aRoot, a, n) ==
  /\ isAncestor(a, n)
  /\ Typed(aRoot, a)
  /\ \A b \in Elements : isAncestor(b, n) /\ Typed(aRoot, b) =>
        isInclusiveAncestor(parentElement, b, a)

AllInstances ==
  UNION {InstancesOf(registry, i) : i \in DOMAIN registry}

C15_NearestInFamily ==
  \A o \in AllInstances :
     LET aRoot == familyRoot(o.class)
         p == parent(H, o)
     IN IF \E a \in Elements : Nearest(aRoot, a, o.el)
        THEN \E a \in Elements :
               /\ Nearest(aRoot, a, o.el)
               /\ p.error = NoError
               /\ idOf(a) \in DOMAIN p.h.registry
               /\ \E q \in InstancesOf(p.h.registry, idOf(a)) :
                     /\ q.id = p.inst
                     /\ q.el = a
                     /\ isDescendant(q.class, aRoot)
        ELSE p.error = NoError /\ p.inst = 0 /\ p.h = H

(* C16: detach(node) (AKObjectManager.delete) purges the registry entry of the
   node's identity and cancels no subscription: every handle of the node's set
   that was not canceled before detach is not canceled when detach returns *)
\* the cancellation handles (controllers) of the node's entry
HandlesOf(reg, aId) == {reg[aId].controllers[i] : i \in DOMAIN reg[aId].controllers}

C16_DetachKeepsHandles ==
  \A e \in Elements :
     LET d == delete(H, e)
     IN /\ idOf(e) \notin DOMAIN d.registry
        /\ idOf(e) \in DOMAIN registry =>
             \A c \in HandlesOf(registry, idOf(e)) : ~controllers[c] => ~d.controllers[c]

(* C17: registerSubscription(node) (listenerAdded) on a node that has an entry
   allocates one fresh, un-canceled handle, appends exactly that handle to the
   node's set and changes nothing else: the handles already in the set, the
   node's instance table, every other handle and the entries of the other
   nodes are as before *)
C17_OneFreshHandle ==
  \A e \in Elements :
     idOf(e) \in DOMAIN registry =>
       LET a == listenerAdded(H, e)
           id == idOf(e)
       IN /\ a.error = NoError
          /\ a.signal \notin DOMAIN controllers
          /\ DOMAIN a.h.controllers = DOMAIN controllers \cup {a.signal}
          /\ ~a.h.controllers[a.signal]
          /\ \A c \in DOMAIN controllers : a.h.controllers[c] = controllers[c]
          /\ a.h.registry[id].controllers = Append(registry[id].controllers, a.signal)
          /\ a.h.registry[id].instances = registry[id].instances
          /\ DOMAIN a.h.registry = DOMAIN registry
          /\ \A j \in DOMAIN registry : j # id => a.h.registry[j] = registry[j]
          /\ a.h.created = created
          /\ a.h.listeners = listeners

\* a handle obtained by a caller of listenerAdded, which no listener of the model
\* uses, sits in a set after an older handle while another node has an entry
C17_Witness ==
  \E e \in Elements :
     /\ idOf(e) \in DOMAIN registry
     /\ DOMAIN registry # {idOf(e)}
     /\ \E i \in DOMAIN registry[idOf(e)].controllers :
          /\ i > 1
          /\ ~controllers[registry[idOf(e)].controllers[i]]
          /\ \A l \in listeners : l.signal # registry[idOf(e)].controllers[i]

(* C18: every instance created by resolve goes once, and in this order, through
   construct and validate (before it is bound to its node and registered), apply
   (the only step that registers event handlers, one per declared handler) and
   initialize; an instance that exists already goes through no step again *)
\* the event types of the class's declared handlers
HandlerTypes(aClass) == {Handlers(aClass)[i] : i \in DOMAIN Handlers(aClass)}

C19_DestroyBeforeCancel ==
  \A s \in {observeDestroySteps(H, pending)[i] : i \in DOMAIN pending} :
     LET id == idOf(s.node)
         handles == HandlesOf(s.before.registry, id)
     IN /\ observeDestroy(s.before, <<s.node>>) = s.after
        /\ id \in DOMAIN s.before.registry =>
             /\ \A c \in handles : ~s.before.controllers[c] /\ s.after.controllers[c]
             /\ id \notin DOMAIN s.after.registry
             /\ \A l \in s.before.listeners :
                   (l.el = s.node /\ l.type = "destroy" /\ l.signal \in handles)
                     => l \in s.fired
             /\ \A o \in InstancesOf(s.before.registry, id) :
                   \E g \in {get(s.before, s.node, classNameOf(o.class), <<>>)} :
                      g.error = NoError /\ g.inst = o.id /\ g.h = s.before

\* after an earlier teardown canceled a handle, a batch is pending for a node
\* whose destroy listener runs at delivery
C19_Witness ==
  /\ \E c \in DOMAIN controllers : controllers[c]
  /\ \E i \in DOMAIN pending :
       /\ observeDestroySteps(H, pending)[i].fired # {}
       /\ InstancesOf(registry, idOf(pending[i])) # {}

(* C20: removing a node from the tree changes nothing in the registry; on
   every step up to the delivery of the batch, a removed node that has an entry
   keeps it with its instances, get on the node returns the instance it
   returned before, and none of the node's handles is canceled *)
C20_AsyncCleanup ==
  [][~(pending # <<>> /\ pending' = <<>>) =>
       /\ parentElement' # parentElement => UNCHANGED heapVars
       /\ \A n \in {pending'[i] : i \in DOMAIN pending'} :
            idOf(n) \in DOMAIN registry =>
              /\ idOf(n) \in DOMAIN registry'
              /\ \A c \in HandlesOf(registry', idOf(n)) : ~controllers'[c]
              /\ \E after \in {[registry |-> registry', created |-> created',
                                 controllers |-> controllers', listeners |-> listeners']} :
                    \A o \in InstancesOf(registry, idOf(n)) :
                       /\ o \in InstancesOf(after.registry, idOf(n))
                       /\ \E g \in {get(after, n, classNameOf(o.class), <<>>)} :
                             g.error = NoError /\ g.inst = o.id /\ g.h = after]_vars

\* a removed node waits for the delivery, out of the tree, with its entry, an
\* instance and a live handle
C20_Witness ==
  \E i \in DOMAIN pending :
     /\ parentElement[pending[i]] = NoNode
     /\ idOf(pending[i]) \in DOMAIN registry
     /\ InstancesOf(registry, idOf(pending[i])) # {}
     /\ \E c \in HandlesOf(registry, idOf(pending[i])) : ~controllers[c]

(* C21: for a node of a delivered batch, the destroy event is dispatched on
   the node exactly once and every handle of its set is canceled exactly once,
   also when the batch holds several removal records of the node *)
\* the records of the batch at which the callback dispatches destroy on the node
DispatchesOn(aNode) ==
  {i \in DOMAIN pending : observeDestroySteps(H, pending)[i].node = aNode}

\* the records of the batch at which the handle goes from live to canceled
CancelsOf(aHandle) ==
  {i \in DOMAIN pending :
     /\ ~observeDestroySteps(H, pending)[i].before.controllers[aHandle]
     /\ observeDestroySteps(H, pending)[i].after.controllers[aHandle]}

C21_OncePerRemovedNode ==
  \A n \in {pending[i] : i \in DOMAIN pending} :
     /\ Cardinality(DispatchesOn(n)) = 1
     /\ idOf(n) \in DOMAIN registry =>
          \A c \in HandlesOf(registry, idOf(n)) : Cardinality(CancelsOf(c)) = 1

(* C22: constructing an instance of a type that no register call attached a
   name to fails with AssertionFailure, also when the type descends from a
   registered type, and binds no instance to the node *)
C22_UnregisteredTypeFails ==
  \A c \in Classes, e \in Elements :
     className[c] = NULL => construct(c, e).name = "AssertionFailure"

(* C23: get on a node whose id is empty, or with a type name that is empty
   or not a string, throws AssertionFailure at once: it makes no nested call,
   constructs nothing and leaves the registry as it was (get writes no catalog) *)
C23_PreconditionFailure ==
  \A e \in Mutable \cup {Anonymous}, n \in Names \cup EmptyNames, hooks \in Hooks :
     (~isNonEmptyStr(elemId(e)) \/ ~isNonEmptyStr(n)) =>
       \E g \in {get(H, e, n, hooks)} :
          /\ g.error = Thrown("AssertionFailure", <<>>)
          /\ g.inst = 0
          /\ g.h = H
          /\ Len(g.events) = 1

\* the catalogs and the registry hold entries when the two failing calls are made
C23_Witness ==
  /\ uiItems # EmptyMap /\ compItems # EmptyMap
  /\ idOf("e1") \in DOMAIN registry
  /\ attrs["e1"].comp = NULL
  /\ get(H, Anonymous, Foo, <<>>).error # NoError
  /\ get(H, "e1", <<>>, <<>>).error # NoError

(* C24: after enhanceElement has returned on an element, every element of its
   subtree whose declared names differ from one another, the child an apply step
   created during the call included, has exactly one instance for each binding
   it declares, of the class the binding's catalog holds; enhance was called
   once on each element of the subtree, on an element before its descendants *)
\* the position of the element in the sequence
IndexIn(aSeq, aElement) == CHOOSE i \in DOMAIN aSeq : aSeq[i] = aElement

\* the entry of the element holds, for each binding it declares, an instance of
\* the class the binding's catalog holds
BindingsServed(h, aElement) ==
  \A i \in DOMAIN declared(aElement) :
     /\ idOf(aElement) \in DOMAIN h.registry
     /\ \E o \in InstancesOf(h.registry, idOf(aElement)) :
           o.class = BoundClass(aElement, i) /\ o.el = aElement

\* the instances of the entry that serve the declared bindings are as many as
\* the bindings
OneInstancePerBinding(h, aElement) ==
  declared(aElement) # <<>> =>
    /\ idOf(aElement) \in DOMAIN h.registry
    /\ Cardinality({o \in InstancesOf(h.registry, idOf(aElement)) :
                      \E i \in DOMAIN declared(aElement) : o.class = BoundClass(aElement, i)})
         = Len(declared(aElement))

\* enhance was called once on each element of the subtree, ancestors first
PreOrder(x, aRoot) ==
  /\ \A n \in Elements :
        isInclusiveAncestor(x.p, aRoot, n) <=>
          Cardinality({i \in DOMAIN x.visited : x.visited[i] = n}) = 1
  /\ \A i \in DOMAIN x.visited : isInclusiveAncestor(x.p, aRoot, x.visited[i])
  /\ \A a \in Elements, n \in Elements :
        (a # n /\ isInclusiveAncestor(x.p, aRoot, a) /\ isInclusiveAncestor(x.p, a, n))
          => IndexIn(x.visited, a) < IndexIn(x.visited, n)

C25_AttachedNodeKept ==
  \A n \in {pending[i] : i \in DOMAIN pending} :
     (isConnected(n) /\ idOf(n) \in DOMAIN registry) =>
       \E h \in {observeDestroy(H, pending)} :
          /\ idOf(n) \in DOMAIN h.registry
          /\ \A c \in HandlesOf(registry, idOf(n)) : ~controllers[c] => ~h.controllers[c]

(* C26: a get that throws, at whatever step of the lifecycle, leaves the
   registry as it was: no instance and no handle was added for the node, and
   the next get for the same node and name constructs afresh *)
C26_FailedGetLeavesNothing ==
  \A e \in Mutable, n \in Names, hooks \in Hooks :
     \E g \in {get(H, e, n, hooks)} :
        g.error # NoError =>
          /\ g.h.registry = registry
          /\ g.h.controllers = controllers
          /\ \A i \in DOMAIN get(g.h, e, n, <<>>).events :
                get(g.h, e, n, <<>>).events[i].error = NoError
                  => get(g.h, e, n, <<>>).events[i].isNew

(* C27: the instance a successful get(node, name) returns is bound to the node
   passed in, also when another node has an id that differs from the node's in
   letter case only *)
C27_BoundToNode ==
  \A e \in Twins, n \in Names :
     \E g \in {get(H, e, n, <<>>)} :
        g.error = NoError =>
          \E o \in InstancesOf(g.h.registry, idOf(e)) : o.id = g.inst /\ o.el = e

(* C28: after any sequence of register and unregister calls, the name of every
   catalog entry equals, letter case apart, the className its class answers *)
C28_EntryNameIsClassName ==
  \A f \in Families :
     \A k \in DOMAIN Items(f) : sameText(classNameOf(Items(f)[k]), k)

(* C29: the instance a successful get(node, name) returns is an instance of the
   class the catalogs hold for the name when the call is made, also when the
   name was unregistered and registered again with another class after an
   instance had been created for the node and the name *)
C29_InstanceOfCurrentClass ==
  \A e \in Resolved, n \in Names :
     \E g \in {get(H, e, n, <<>>)} :
        g.error = NoError =>
          \E o \in InstancesOf(g.h.registry, idOf(e)) :
             o.id = g.inst /\ o.class = resolveClass(e, n).class

(* C30: in every state no handle of an entry that is in the registry is
   canceled; a step that cancels a handle removes the entry the handle belongs
   to and cancels every handle of that entry with it *)
\* no handle of a registered entry is canceled
LiveEntries(reg, ctrls) ==
  \A id \in DOMAIN reg : \A c \in HandlesOf(reg, id) : ~ctrls[c]

C30_AllOrNothing ==
  [][/\ LiveEntries(registry, controllers)
     /\ LiveEntries(registry', controllers')
     /\ \A c \in DOMAIN controllers :
          (~controllers[c] /\ controllers'[c]) =>
            \E id \in DOMAIN registry :
               /\ c \in HandlesOf(registry, id)
               /\ id \notin DOMAIN registry'
               /\ \A d \in HandlesOf(registry, id) : controllers'[d]]_vars

\* the teardown has canceled two handles, and an entry is registered with a live
\* handle
C30_Witness ==
  /\ Cardinality({c \in DOMAIN controllers : controllers[c]}) >= 2
  /\ \E id \in DOMAIN registry : \E c \in HandlesOf(registry, id) : ~controllers[c]

(* C31: enhance on a node that has no ak-component-class attribute and whose
   ak-ui-classes attribute is absent or empty returns without an error,
   constructs nothing and leaves the registry as it was, whether or not the node
   has an id; enhanceElement on such a node goes on to each of its children *)
\* the node declares no bindings
NoBindings(aElement) ==
  attrs[aElement].comp = NULL /\ attrs[aElement].ui \in {NULL, <<>>}

C31_UnmanagedIsNoOp ==
  \A e \in Unmanaged :
     NoBindings(e) =>
       /\ enhance(H, e) = [h |-> H, error |-> NoError, events |-> <<>>]
       /\ \E x \in {enhanceElement(H, parentElement, e)} :
            /\ Head(x.visited) = e
            /\ \A c \in Elements :
                 parentElement[c] = e => \E i \in DOMAIN x.visited : x.visited[i] = c

\* the node without an id has an empty ak-ui-classes attribute while the
\* registry holds an instance and a handle of its child, and enhance on it
\* leaves them as they are
C31_Witness ==
  /\ attrs[Anonymous] = [comp |-> NULL, ui |-> <<>>]
  /\ elemId(Anonymous) = <<>>
  /\ idOf("e1") \in DOMAIN registry
  /\ registry[idOf("e1")].controllers # <<>>
  /\ enhance(H, Anonymous).h = H

(* C32: the loop of the parent getter visits no node twice.  When is() accepts
   none of the nodes it visits, the getter returns null, constructs nothing and
   leaves the registry as it was.  When is() accepts one and get on it returns,
   the getter returns an instance, constructs at most one, and a second read
   returns the same instance and changes nothing; when get on it throws, the
   getter throws that error and the registry is as it was *)
\* the nodes the parent getter of the instance visits
Visited(o) == visitedFrom(parentElement[o.el], familyRoot(o.class))
\* is() accepts one of the visited nodes
FindsTyped(o) ==
  \E i \in DOMAIN Visited(o) : is(familyRoot(o.class), Visited(o)[i]) # NoClass
\* no node is visited twice
VisitsOnce(o) ==
  \A i, j \in DOMAIN Visited(o) : i # j => Visited(o)[i] # Visited(o)[j]
\* no parent: null, and nothing has changed
NoParent(o) ==
  parent(H, o) = [h |-> H, error |-> NoError, inst |-> 0, events |-> <<>>]
\* the read returns an instance, constructs one at most, and a second read
\* returns the same instance and changes nothing
SameParentAgain(o) ==
  \E q \in {parent(H, o)} :
     /\ q.error = NoError
     /\ q.inst # 0
     /\ q.h.created <= created + 1
     /\ \E r \in {parent(q.h, o)} :
          r.error = NoError /\ r.inst = q.inst /\ r.h = q.h

C33_NoEntryNoHandle ==
  /\ \A e \in Movable :
       idOf(e) \notin DOMAIN registry =>
         listenerAdded(H, e) =
           [h |-> H, signal |-> 0, error |-> Thrown("AssertionFailure", <<>>)]
  /\ \A id \in DOMAIN registry : registry[id].instances # EmptyMap
  /\ \A c \in DOMAIN controllers :
       ~controllers[c] => \E id \in DOMAIN registry : c \in HandlesOf(registry, id)

\* the entry of e1 has been removed by the teardown, which aborted a controller
\* of it, e2 has an entry with a controller that is not aborted, and
\* listenerAdded on e1 throws
C33_Witness ==
  /\ idOf("e1") \notin DOMAIN registry
  /\ \E c \in DOMAIN controllers : controllers[c]
  /\ idOf("e2") \in DOMAIN registry
  /\ \E c \in HandlesOf(registry, idOf("e2")) : ~controllers[c]
  /\ listenerAdded(H, "e1").error = Thrown("AssertionFailure", <<>>)

====
